---- MODULE Spec2Model ----
(***************************************************************************)
(* Invoice -> Craftybase CSV (src/app.py).                                 *)
(*                                                                         *)
(* Text is modelled at character level: a token is a sequence of one-      *)
(* character strings, a raw line is the sequence of tokens obtained by     *)
(* splitting the line on single spaces (so leading, trailing and doubled   *)
(* spaces show up as empty tokens), and a text is a sequence of raw lines  *)
(* (the text split on "\n").  Numbers are fixed point, in hundredths.      *)
(***************************************************************************)
EXTENDS Integers, Sequences, FiniteSets, TLC

VARIABLES uploaded, fi, frames, errors, warnings, result,
          text, hdr, block, idx, lines, meta, items, rows, pc

vars == <<uploaded, fi, frames, errors, warnings, result,
          text, hdr, block, idx, lines, meta, items, rows, pc>>

batchVars == <<uploaded, fi, frames, errors, warnings, result>>
linesVars == <<block, idx, lines>>
rowsVars == <<meta, items, rows>>

(* ------------------------------ bounds -------------------------------- *)
MaxLines == 3
MaxHeaderLines == 3
MaxItems == 2
MaxDocs == 3

(* --------------------------- characters ------------------------------- *)
Digit == {"0","1","2","3","4","5","6","7","8","9"}
UpperSeq == <<"A","B","C","D","E","F","G","H","I","J","K","L","M","N","O","P","Q","R","S","T","U","V","W","X","Y","Z">>
LowerSeq == <<"a","b","c","d","e","f","g","h","i","j","k","l","m","n","o","p","q","r","s","t","u","v","w","x","y","z">>
Upper == {UpperSeq[i] : i \in 1..26}
LowerCase == {LowerSeq[i] : i \in 1..26}
WordChar == Digit \cup Upper \cup LowerCase \cup {"_"}
\* [A-Z0-9-]
SkuChar == Upper \cup Digit \cup {"-"}
\* [0-9.-]
NumDashChar == Digit \cup {".", "-"}
\* [0-9,.]
NumCommaChar == Digit \cup {",", "."}
\* [0-9-]
DigitDashChar == Digit \cup {"-"}
\* [A-Z0-9]
AlnumChar == Upper \cup Digit

\* str.lower() / re.IGNORECASE on one character
Lower(c) == IF c \in Upper THEN LowerSeq[CHOOSE i \in 1..26 : UpperSeq[i] = c] ELSE c
ToLower(t) == [i \in 1..Len(t) |-> Lower(t[i])]

StartsWith(t, w) == Len(t) >= Len(w) /\ SubSeq(t, 1, Len(w)) = w
EndsWith(t, w) == Len(t) >= Len(w) /\ SubSeq(t, Len(t) - Len(w) + 1, Len(t)) = w
StartsWithCI(t, w) == StartsWith(ToLower(t), ToLower(w))
EndsWithCI(t, w) == EndsWith(ToLower(t), ToLower(w))
EqualsCI(t, w) == ToLower(t) = ToLower(w)
\* [class]+ matching the whole token
AllIn(t, class) == Len(t) >= 1 /\ \A i \in 1..Len(t) : t[i] \in class
\* length of the longest prefix of t made of characters of class (greedy [class]+)
RECURSIVE PrefixLen(_, _)
PrefixLen(t, class) ==
    IF t = <<>> \/ t[1] \notin class THEN 0 ELSE 1 + PrefixLen(Tail(t), class)

DigitVal(c) == CHOOSE d \in 0..9 : <<"0","1","2","3","4","5","6","7","8","9">>[d + 1] = c
RECURSIVE DigitsVal(_)
DigitsVal(t) ==
    IF t = <<>> THEN 0 ELSE DigitsVal(SubSeq(t, 1, Len(t) - 1)) * 10 + DigitVal(t[Len(t)])

\* float(s) for s over [0-9.-]: an optional sign, digits with at most one
\* point and at least one digit; anything else raises ValueError.
\* The value is kept in hundredths (two fractional digits).
PyFloat(t) ==
    LET neg == t # <<>> /\ t[1] = "-"
        body == IF neg THEN Tail(t) ELSE t
        dots == {i \in 1..Len(body) : body[i] = "."}
        ok == /\ body # <<>>
              /\ \A i \in 1..Len(body) : body[i] \in Digit \cup {"."}
              /\ Cardinality(dots) <= 1
              /\ \E i \in 1..Len(body) : body[i] \in Digit
        dot == IF dots = {} THEN Len(body) + 1 ELSE CHOOSE i \in dots : TRUE
        ip == SubSeq(body, 1, dot - 1)
        fp == SubSeq(body, dot + 1, Len(body))
        f2 == IF Len(fp) = 0 THEN 0
              ELSE IF Len(fp) = 1 THEN DigitVal(fp[1]) * 10
              ELSE DigitVal(fp[1]) * 10 + DigitVal(fp[2])
        mag == DigitsVal(ip) * 100 + f2
    IN  IF ok THEN [ok |-> TRUE, v |-> IF neg THEN 0 - mag ELSE mag]
        ELSE [ok |-> FALSE, v |-> 0]

\* s.replace(',', '')
RemoveCommas(t) == SelectSeq(t, LAMBDA c : c # ",")

\* clean(s): strip, then collapse every whitespace run to one space
clean(raw) == SelectSeq(raw, LAMBDA t : t # <<>>)

(* ------------------------- parse_lines: patterns ---------------------- *)
\* ^(NO\.|ITEM|EACH\s+ORDERED|SHIP VIA|SO TYPE), IGNORECASE, on a cleaned line
IsChrome(s) ==
    /\ s # <<>>
    /\ \/ StartsWithCI(s[1], <<"N","O",".">>)
       \/ StartsWithCI(s[1], <<"I","T","E","M">>)
       \/ Len(s) >= 2 /\ EqualsCI(s[1], <<"E","A","C","H">>) /\ StartsWithCI(s[2], <<"O","R","D","E","R","E","D">>)
       \/ Len(s) >= 2 /\ EqualsCI(s[1], <<"S","H","I","P">>) /\ StartsWithCI(s[2], <<"V","I","A">>)
       \/ Len(s) >= 2 /\ EqualsCI(s[1], <<"S","O">>) /\ StartsWithCI(s[2], <<"T","Y","P","E">>)

\* \bw\b inside one token, IGNORECASE (w is one word, tokens hold no space)
TokenHasWord(t, w) ==
    \E i \in 1..(Len(t) - Len(w) + 1) :
        /\ ToLower(SubSeq(t, i, i + Len(w) - 1)) = ToLower(w)
        /\ (i = 1 \/ t[i - 1] \notin WordChar)
        /\ (i + Len(w) > Len(t) \/ t[i + Len(w)] \notin WordChar)

\* re.search(r"\bFreight\b", s, re.IGNORECASE)
HasFreightWord(s) == \E k \in 1..Len(s) : TokenHasWord(s[k], <<"F","r","e","i","g","h","t">>)

\* re.search(r"([0-9]+\.[0-9]{2})\s*$", s) and float() of the group:
\* the last token ends in digits '.' two digits; the group starts at the
\* first digit of the digit run before the point.
FreightAmount(s) ==
    LET t == s[Len(s)]
        n == Len(t)
        hit == /\ n >= 4
               /\ t[n] \in Digit /\ t[n - 1] \in Digit /\ t[n - 2] = "."
               /\ t[n - 3] \in Digit
        st == CHOOSE i \in 1..(n - 3) :
                 /\ \A j \in i..(n - 3) : t[j] \in Digit
                 /\ (i = 1 \/ t[i - 1] \notin Digit)
    IN  IF hit THEN DigitsVal(SubSeq(t, st, n - 3)) * 100 + DigitsVal(SubSeq(t, n - 1, n))
        ELSE 0

\* ([A-Z0-9-]+):?\s+  against one token
IsSkuToken(t) ==
    \/ AllIn(t, SkuChar)
    \/ Len(t) >= 2 /\ t[Len(t)] = ":" /\ AllIn(SubSeq(t, 1, Len(t) - 1), SkuChar)
SkuOf(t) == IF t[Len(t)] = ":" THEN SubSeq(t, 1, Len(t) - 1) ELSE t

\* ^\d+\s+([A-Z0-9-]+):?\s+(.*?)\s+EACH\s+([0-9.-]+)\s+([0-9.-]+)\s+([0-9.-]+)\s+([0-9,.]+)\s+([0-9,.]+)$
FullMatch(s) ==
    LET n == Len(s) IN
    /\ n >= 9
    /\ AllIn(s[1], Digit)
    /\ IsSkuToken(s[2])
    /\ s[n - 5] = <<"E","A","C","H">>
    /\ AllIn(s[n - 4], NumDashChar)
    /\ AllIn(s[n - 3], NumDashChar)
    /\ AllIn(s[n - 2], NumDashChar)
    /\ AllIn(s[n - 1], NumCommaChar)
    /\ AllIn(s[n], NumCommaChar)
\* m.group(g) of the full pattern, g in 1..7
FullGroup(s, g) ==
    LET n == Len(s) IN
    IF g = 1 THEN SkuOf(s[2])
    ELSE IF g = 2 THEN SubSeq(s, 3, n - 6)
    ELSE s[n - 7 + g]

\* ^\d+\s+([A-Z0-9-]+):?\s+(.*?)\s+([0-9,.]+)\s+([0-9,.]+)$
ShortMatch(s) ==
    LET n == Len(s) IN
    /\ n >= 5
    /\ AllIn(s[1], Digit)
    /\ IsSkuToken(s[2])
    /\ AllIn(s[n - 1], NumCommaChar)
    /\ AllIn(s[n], NumCommaChar)
\* m.group(g) of the short pattern, g in 1..4
ShortGroup(s, g) ==
    LET n == Len(s) IN
    IF g = 1 THEN SkuOf(s[2])
    ELSE IF g = 2 THEN SubSeq(s, 3, n - 2)
    ELSE s[n - 4 + g]

FreightName == <<<<"F","r","e","i","g","h","t">>, <<"-">>, <<"U","P","S">>, <<"G","r","o","u","n","d">>>>
LineItem(sku, name, qty, sub, ship) ==
    [sku |-> sku, name |-> name, qty |-> qty, price_subtotal |-> sub, shipping |-> ship]

\* the item the freight branch appends
FreightItem(s) == LineItem(<<>>, FreightName, 100, 0, FreightAmount(s))

\* the short branch: float(amount.replace(',', '')) under try/except
ShortItem(s) ==
    LET f == PyFloat(RemoveCommas(ShortGroup(s, 4)))
    IN  LineItem(ShortGroup(s, 1), ShortGroup(s, 2), 100,
                 IF f.ok THEN f.v ELSE 0, 0)

\* the full branch: float(m.group(3)) and float(m.group(7).replace(',', ''))
\* with no exception handler around them
FullQtyGroup == 3
FullQty(s) == PyFloat(FullGroup(s, FullQtyGroup))
FullAmount(s) == PyFloat(RemoveCommas(FullGroup(s, 7)))
FullRaises(s) == ~FullQty(s).ok \/ ~FullAmount(s).ok
FullItem(s) ==
    LineItem(FullGroup(s, 1), FullGroup(s, 2), FullQty(s).v, FullAmount(s).v, 0)

\* variant: the item patterns are tried before the freight test
LineClass_ItemFirst(s) ==
    IF s = <<>> THEN "empty"
    ELSE IF IsChrome(s) THEN "chrome"
    ELSE IF FullMatch(s) THEN "full"
    ELSE IF ShortMatch(s) THEN "short"
    ELSE IF HasFreightWord(s) THEN "freight"
    ELSE "unparsed"
\* one pass of the body of "for raw in block.splitlines()"
LineClass(s) ==
    IF s = <<>> THEN "empty"
    ELSE IF IsChrome(s) THEN "chrome"
    ELSE IF HasFreightWord(s) THEN "freight"
    ELSE IF FullMatch(s) THEN "full"
    ELSE IF ShortMatch(s) THEN "short"
    ELSE "unparsed"

(* --------------------- parse_lines: region isolation ------------------ *)
\* positions <<line, token>> of the raw tokens of a text
Positions(txt) == UNION {{<<l, t>> : t \in 1..Len(txt[l])} : l \in 1..Len(txt)}
Before(p, q) == p[1] < q[1] \/ (p[1] = q[1] /\ p[2] < q[2])
TokAt(txt, p) == txt[p[1]][p[2]]
\* the token that follows p after a whitespace run (\s* also crosses "\n")
NextTokens(txt, p) ==
    {q \in Positions(txt) :
        /\ Before(p, q)
        /\ TokAt(txt, q) # <<>>
        /\ \A r \in Positions(txt) : Before(p, r) /\ Before(r, q) => TokAt(txt, r) = <<>>}

\* NO\.\s*ITEM, IGNORECASE, starting in the token at p: both words in that
\* token, or "NO." ending it and "ITEM" starting the next one.  The result
\* is the set of <<position of the ITEM token, index of the M of ITEM>>.
NoItemAt(txt, p) ==
    LET t == TokAt(txt, p) IN
    {<<p, i + 6>> : i \in {i \in 1..(Len(t) - 6) : ToLower(SubSeq(t, i, i + 6)) = <<"n","o",".","i","t","e","m">>}}
    \cup
    {<<q, 4>> : q \in {q \in NextTokens(txt, p) :
                          EndsWithCI(t, <<"N","O",".">>) /\ StartsWithCI(TokAt(txt, q), <<"I","T","E","M">>)}}

\* .*?AMOUNT\n after an ITEM ending at character e of the token at ip: the
\* lines that end in AMOUNT (IGNORECASE) and are followed by a newline
AmountLines(txt, ip, e) ==
    {j \in ip[1]..(Len(txt) - 1) :
        LET last == txt[j][Len(txt[j])] IN
        /\ EndsWithCI(last, <<"A","M","O","U","N","T">>)
        /\ \/ j > ip[1]
           \/ Len(txt[j]) > ip[2]
           \/ Len(last) >= e + 6}

\* \n(?:THANK YOU|Sales Total|Freight Total), IGNORECASE: the marker begins a raw line
MarkerAtStart(raw) ==
    /\ Len(raw) >= 2
    /\ \/ EqualsCI(raw[1], <<"T","H","A","N","K">>) /\ StartsWithCI(raw[2], <<"Y","O","U">>)
       \/ EqualsCI(raw[1], <<"S","a","l","e","s">>) /\ StartsWithCI(raw[2], <<"T","o","t","a","l">>)
       \/ EqualsCI(raw[1], <<"F","r","e","i","g","h","t">>) /\ StartsWithCI(raw[2], <<"T","o","t","a","l">>)

\* AMOUNT\n(.*?)\n(?:...): group 1 is followed by "\n" and the marker, so the
\* marker line is at least two lines below the AMOUNT line
MarkerLines(txt, j) == {k \in (j + 2)..Len(txt) : MarkerAtStart(txt[k])}

Min(S) == CHOOSE x \in S : \A y \in S : x <= y
Max(S) == CHOOSE x \in S : \A y \in S : x >= y

\* tab_m: <<start position, first line, last line of group 1>> of every way
\* the pattern can match; the lazy quantifiers take the nearest AMOUNT line
\* and the nearest marker line
TableMatches(txt) ==
    UNION {UNION {LET js == AmountLines(txt, o[1], o[2]) IN
                  IF js = {} THEN {}
                  ELSE LET ks == MarkerLines(txt, Min(js)) IN
                       IF ks = {} THEN {} ELSE {<<p, Min(js) + 1, Min(ks) - 1>>}
                  : o \in NoItemAt(txt, p)}
           : p \in Positions(txt)}

\* block = tab_m.group(1) if tab_m else text  (re.search: leftmost match)
TableBlock(txt) ==
    LET ms == TableMatches(txt) IN
    IF ms = {} THEN txt
    ELSE LET m == CHOOSE m \in ms : \A m2 \in ms :
                     \/ Before(m[1], m2[1])
                     \/ m[1] = m2[1] /\ m[2] <= m2[2]
         IN  SubSeq(txt, m[2], m[3])

\* parse_lines as a function: [raised, lines] after the whole loop
RECURSIVE ParseBlock(_, _)
ParseBlock(blk, acc) ==
    IF blk = <<>> THEN [raised |-> FALSE, lines |-> acc]
    ELSE LET s == clean(Head(blk))
             c == LineClass(s)
         IN  IF c = "freight" THEN ParseBlock(Tail(blk), Append(acc, FreightItem(s)))
             ELSE IF c = "short" THEN ParseBlock(Tail(blk), Append(acc, ShortItem(s)))
             ELSE IF c = "full" THEN
                  IF FullRaises(s) THEN [raised |-> TRUE, lines |-> acc]
                  ELSE ParseBlock(Tail(blk), Append(acc, FullItem(s)))
             ELSE ParseBlock(Tail(blk), acc)
parse_lines(txt) == ParseBlock(TableBlock(txt), <<>>)

(* ----------------------------- parse_header --------------------------- *)
\* Python's None, and a value that is not None
None == [none |-> TRUE]
Some(v) == [none |-> FALSE, v |-> v]
EqualsMaybeCI(ci, a, b) == IF ci THEN ToLower(a) = ToLower(b) ELSE a = b
SamePos(p, q) == p[1] = q[1] /\ p[2] = q[2]

\* a label "w1 w2" with one literal space, starting in the token at p:
\* the set of <<position of the token where the label ends, index of its last character>>
LitLabel(txt, p, w1, w2, ci) ==
    LET t == TokAt(txt, p)
        q == <<p[1], p[2] + 1>>
    IN  IF /\ Len(t) >= Len(w1)
           /\ EqualsMaybeCI(ci, SubSeq(t, Len(t) - Len(w1) + 1, Len(t)), w1)
           /\ q[2] <= Len(txt[p[1]])
           /\ Len(TokAt(txt, q)) >= Len(w2)
           /\ EqualsMaybeCI(ci, SubSeq(TokAt(txt, q), 1, Len(w2)), w2)
        THEN {<<q, Len(w2)>>}
        ELSE {}

\* a label w1\s*w2 starting in the token at p: both parts inside that token,
\* or w1 ending it and w2 starting the next token after the whitespace
GapLabel(txt, p, w1, w2, ci) ==
    LET t == TokAt(txt, p)
        w == w1 \o w2
    IN  {<<p, i + Len(w) - 1>> :
            i \in {i \in 1..(Len(t) - Len(w) + 1) :
                      EqualsMaybeCI(ci, SubSeq(t, i, i + Len(w) - 1), w)}}
        \cup
        (IF Len(t) >= Len(w1) /\ EqualsMaybeCI(ci, SubSeq(t, Len(t) - Len(w1) + 1, Len(t)), w1)
         THEN {<<q, Len(w2)>> :
                  q \in {q \in NextTokens(txt, p) :
                            /\ Len(TokAt(txt, q)) >= Len(w2)
                            /\ EqualsMaybeCI(ci, SubSeq(TokAt(txt, q), 1, Len(w2)), w2)}}
         ELSE {})

\* \bDate: inside the token at p (case-sensitive)
DateLabel(txt, p) ==
    LET t == TokAt(txt, p) IN
    {<<p, i + 4>> :
        i \in {i \in 1..(Len(t) - 4) :
                  /\ SubSeq(t, i, i + 4) = <<"D","a","t","e",":">>
                  /\ (i = 1 \/ t[i - 1] \notin WordChar)}}

\* what \s*( ... ) can start on after a label that ends at character e[2] of
\* the token at e[1]: the rest of that token, or else the next token
AfterLabel(txt, e) ==
    LET t == TokAt(txt, e[1]) IN
    IF e[2] < Len(t) THEN SubSeq(t, e[2] + 1, Len(t))
    ELSE IF NextTokens(txt, e[1]) = {} THEN <<>>
    ELSE TokAt(txt, CHOOSE q \in NextTokens(txt, e[1]) : TRUE)

\* greedy ([class]+) at the start of r; <<>> when it does not match
ClassPrefix(r, class) == SubSeq(r, 1, PrefixLen(r, class))

\* (\d{1,2}/\d{1,2}/\d{4}) at the start of r; <<>> when it does not match
DatePrefix(r) ==
    LET shapes == {<<a, b>> \in (1..2) \X (1..2) :
                      /\ Len(r) >= a + b + 6
                      /\ AllIn(SubSeq(r, 1, a), Digit)
                      /\ r[a + 1] = "/"
                      /\ AllIn(SubSeq(r, a + 2, a + 1 + b), Digit)
                      /\ r[a + b + 2] = "/"
                      /\ AllIn(SubSeq(r, a + b + 3, a + b + 6), Digit)}
    IN  IF shapes = {} THEN <<>>
        ELSE LET ab == CHOOSE ab \in shapes : TRUE IN SubSeq(r, 1, ab[1] + ab[2] + 6)

\* re.search: group 1 of the leftmost match among <<start position, group 1>>
\* candidates (group 1 is never empty in a match), or None
FirstMatch(cands) ==
    LET ms == {c \in cands : c[2] # <<>>} IN
    IF ms = {} THEN None
    ELSE Some((CHOOSE m \in ms : \A m2 \in ms : SamePos(m[1], m2[1]) \/ Before(m[1], m2[1]))[2])

\* re.search(r"Reference No\.\s*([A-Z0-9-]+)", text)
SearchInvoiceNo(txt) ==
    FirstMatch(UNION {{<<p, ClassPrefix(AfterLabel(txt, e), SkuChar)>> :
                          e \in LitLabel(txt, p, <<"R","e","f","e","r","e","n","c","e">>, <<"N","o",".">>, FALSE)}
                      : p \in Positions(txt)})

\* re.search(r"\bDate:\s*(\d{1,2}/\d{1,2}/\d{4})", text)
SearchDate(txt) ==
    FirstMatch(UNION {{<<p, DatePrefix(AfterLabel(txt, e))>> : e \in DateLabel(txt, p)}
                      : p \in Positions(txt)})

\* re.search(r"SO\s*NUMBER\s*([0-9-]+)", text, re.IGNORECASE)
SearchSoNumber(txt) ==
    FirstMatch(UNION {{<<p, ClassPrefix(AfterLabel(txt, e), DigitDashChar)>> :
                          e \in GapLabel(txt, p, <<"S","O">>, <<"N","U","M","B","E","R">>, TRUE)}
                      : p \in Positions(txt)})

\* re.search(r"Shipment Number\s*([0-9-]+)", text, re.IGNORECASE)
SearchShipmentNumber(txt) ==
    FirstMatch(UNION {{<<p, ClassPrefix(AfterLabel(txt, e), DigitDashChar)>> :
                          e \in LitLabel(txt, p, <<"S","h","i","p","m","e","n","t">>, <<"N","u","m","b","e","r">>, TRUE)}
                      : p \in Positions(txt)})

\* re.search(r"Tracking\s*#\s*([A-Z0-9]+)", text, re.IGNORECASE)
SearchTrackingHash(txt) ==
    FirstMatch(UNION {{<<p, ClassPrefix(AfterLabel(txt, e), AlnumChar \cup LowerCase)>> :
                          e \in GapLabel(txt, p, <<"T","r","a","c","k","i","n","g">>, <<"#">>, TRUE)}
                      : p \in Positions(txt)})

\* re.search(r"TRACKING NUMBER\s*\n([A-Z0-9]+)", text): after the heading only
\* whitespace up to a newline, and the group starts the first line that is
\* not blank
BlankLine(raw) == \A t \in 1..Len(raw) : raw[t] = <<>>
HeadingValue(txt, e) ==
    LET l == e[1][1]
        below == {c \in (l + 1)..Len(txt) : ~BlankLine(txt[c])}
    IN  IF /\ e[2] = Len(TokAt(txt, e[1]))
           /\ \A t \in (e[1][2] + 1)..Len(txt[l]) : txt[l][t] = <<>>
           /\ below # {}
        THEN ClassPrefix(txt[Min(below)][1], AlnumChar)
        ELSE <<>>
SearchTrackingHeading(txt) ==
    FirstMatch(UNION {{<<p, HeadingValue(txt, e)>> :
                          e \in LitLabel(txt, p, <<"T","R","A","C","K","I","N","G">>, <<"N","U","M","B","E","R">>, FALSE)}
                      : p \in Positions(txt)})

\* variant: the heading form is tried first
SearchTracking_HeadingFirst(txt) ==
    IF SearchTrackingHeading(txt) # None THEN SearchTrackingHeading(txt)
    ELSE SearchTrackingHash(txt)
\* m = re.search(Tracking #); if not m: m = re.search(TRACKING NUMBER heading)
SearchTracking(txt) ==
    IF SearchTrackingHash(txt) # None THEN SearchTrackingHash(txt)
    ELSE SearchTrackingHeading(txt)

HeaderKeys == {"invoice_no", "purchase_date", "so_number", "shipment_number", "tracking"}
HeaderSearch(txt, k) ==
    IF k = "invoice_no" THEN SearchInvoiceNo(txt)
    ELSE IF k = "purchase_date" THEN SearchDate(txt)
    ELSE IF k = "so_number" THEN SearchSoNumber(txt)
    ELSE IF k = "shipment_number" THEN SearchShipmentNumber(txt)
    ELSE SearchTracking(txt)

\* hdr holds exactly the keys whose search produced a match
parse_header(txt) ==
    [k \in {k \in HeaderKeys : HeaderSearch(txt, k) # None} |-> HeaderSearch(txt, k).v]

(* ------------------------- to_craftybase_rows ------------------------- *)
VENDOR_NAME == <<<<"G","r","a","n","d">>, <<"B","r","a","s","s">>, <<"L","a","m","p">>, <<"P","a","r","t","s",",">>, <<"L","L","C",".">>>>
\* meta.get(k)
Get(m, k) == IF k \in DOMAIN m THEN Some(m[k]) ELSE None
\* truthiness of meta.get(k): the key is there and its string is not empty
Truthy(m, k) == k \in DOMAIN m /\ m[k] # <<>>

\* parts / notes: "SO <so>", "Shipment <n>", "Tracking <t>", joined by a
\* bullet (U+2022, written "*" here) between spaces
Bullet == <<"*">>
NoteParts(m) ==
    (IF Truthy(m, "so_number") THEN <<<<<<"S","O">>, m["so_number"]>>>> ELSE <<>>)
    \o (IF Truthy(m, "shipment_number") THEN <<<<<<"S","h","i","p","m","e","n","t">>, m["shipment_number"]>>>> ELSE <<>>)
    \o (IF Truthy(m, "tracking") THEN <<<<<<"T","r","a","c","k","i","n","g">>, m["tracking"]>>>> ELSE <<>>)
RECURSIVE JoinBullet(_)
JoinBullet(parts) ==
    IF Len(parts) = 1 THEN parts[1]
    ELSE parts[1] \o <<Bullet>> \o JoinBullet(Tail(parts))
Notes(m) == IF NoteParts(m) # <<>> THEN Some(JoinBullet(NoteParts(m))) ELSE None

\* 'freight' in name.lower(): the needle has no space, so it lies in one token
ContainsLower(t, w) ==
    \E i \in 1..(Len(t) - Len(w) + 1) : ToLower(SubSeq(t, i, i + Len(w) - 1)) = w
\* variant: the SKU is not looked at
is_freight_NameOnly(it) == \E k \in 1..Len(it.name) : ContainsLower(it.name[k], <<"f","r","e","i","g","h","t">>)
\* variant: the name is not lower-cased before the test
is_freight_CaseSensitive(it) ==
    it.sku = <<>> /\ \E k \in 1..Len(it.name) :
        \E i \in 1..(Len(it.name[k]) - 6) : SubSeq(it.name[k], i, i + 6) = <<"f","r","e","i","g","h","t">>
is_freight(it) ==
    it.sku = <<>> /\ \E k \in 1..Len(it.name) : ContainsLower(it.name[k], <<"f","r","e","i","g","h","t">>)

\* int(x) of a value in hundredths: truncation toward zero
PyInt(q) == IF q >= 0 THEN q \div 100 ELSE 0 - ((0 - q) \div 100)
\* variant: the quantity is rounded to the nearest integer
LineItemQuantity_Rounds(it) == IF it.qty = 0 THEN 1 ELSE PyInt(it.qty + 50)
\* int(it.get('qty') or 1)
LineItemQuantity(it) == IF it.qty = 0 THEN 1 ELSE PyInt(it.qty)
\* 0.0 if is_freight else round(float(it.get('price_subtotal') or 0.0), 2)
LineItemPrice(it) == IF is_freight(it) THEN 0 ELSE it.price_subtotal
\* round(float(it.get('shipping') or 0.0), 2)
RowShipping(it) == it.shipping
\* variant: the total is taken from the row's own price column
GrandTotal_FromRowPrice(it) == LineItemPrice(it) + RowShipping(it)
\* round(float(price_subtotal or 0.0) + float(shipping or 0.0), 2)
GrandTotal(it) == it.price_subtotal + it.shipping

ExportRow(m, it) ==
    [purchase_date |-> Get(m, "purchase_date"),
     code |-> Get(m, "invoice_no"),
     material_sku |-> it.sku,
     material_name |-> it.name,
     vendor |-> VENDOR_NAME,
     lot_number |-> <<>>,
     notes |-> Notes(m),
     line_item_quantity |-> LineItemQuantity(it),
     line_item_category_id |-> IF is_freight(it) THEN "Shipping" ELSE "Materials",
     line_item_price |-> LineItemPrice(it),
     tax |-> 0,
     shipping |-> RowShipping(it),
     discount |-> 0,
     grand_total |-> GrandTotal(it),
     paid |-> "Y"]

to_craftybase_rows(m, its) == [i \in 1..Len(its) |-> ExportRow(m, its[i])]

(* ------------------------------ inputs -------------------------------- *)
LFull == <<<<"1","2">>, <<"B","R","-","1","0","0",":">>, <<"B","r","a","s","s">>, <<"C","o","l","l","a","r">>, <<"E","A","C","H">>, <<"2",".","5","0">>, <<"2",".","5","0">>, <<"0",".","0","0">>, <<"3">>, <<"7",".","5","0">>>>
LFullBad == <<<<"3">>, <<"C","D","-","2">>, <<"N","u","t">>, <<"E","A","C","H">>, <<"-">>, <<"1",".","0","0">>, <<"0",".","0","0">>, <<"2">>, <<",">>>>
LShort == <<<<>>, <<>>, <<"7">>, <<"N","-","1">>, <<>>, <<"N","i","p","p","l","e">>, <<"0",".","5","0">>, <<"1",",","2","3","4",".","5","6">>>>
LShortBad == <<<<"4">>, <<"E","F">>, <<"C","a","p">>, <<"1",".","0","0">>, <<".">>>>
LFreight == <<<<"U","P","S">>, <<"G","r","o","u","n","d">>, <<"F","r","e","i","g","h","t">>, <<"1","2",".","3","4">>>>
LFreightNoAmt == <<<<"F","R","E","I","G","H","T">>, <<"p","r","e","p","a","i","d">>>>
LFreightItem == <<<<"9">>, <<"F","R","-","1">>, <<"F","r","e","i","g","h","t">>, <<"B","o","x">>, <<"E","A","C","H">>, <<"1",".","0","0">>, <<"1",".","0","0">>, <<"0",".","0","0">>, <<"2">>, <<"2",".","0","0">>>>
LFreighter == <<<<"5">>, <<"F","T","-","9">>, <<"F","r","e","i","g","h","t","e","r">>, <<"L","a","m","p">>, <<"3",".","0","0">>, <<"3",".","0","0">>>>
LHeader == <<<<"N","O",".">>, <<"I","T","E","M">>, <<"D","E","S","C","R","I","P","T","I","O","N">>, <<"A","M","O","U","N","T">>>>
LThank == <<<<"T","H","A","N","K">>, <<"Y","O","U">>>>
LFreightTotal == <<<<"F","r","e","i","g","h","t">>, <<"T","o","t","a","l">>, <<"5",".","0","0">>>>
LIndentTotal == <<<<>>, <<"S","a","l","e","s">>, <<"T","o","t","a","l">>, <<"7",".","5","0">>>>
LBlank == <<<<>>>>
LineAlphabet == {LFull, LFullBad, LShort, LShortBad, LFreight, LFreightNoAmt,
                 LFreightItem, LFreighter, LHeader, LThank, LFreightTotal,
                 LIndentTotal, LBlank}
SeqsUpTo(S, n) == UNION {[1..k -> S] : k \in 0..n}

(* ------------------------ parse_lines, step by step ------------------- *)
BatchIdle ==
    /\ uploaded = <<>> /\ fi = 0 /\ frames = <<>> /\ errors = <<>>
    /\ warnings = <<>> /\ result = <<>>
LinesIdle == block = <<>> /\ idx = 0 /\ lines = <<>>
RowsIdle == meta = <<>> /\ items = <<>> /\ rows = <<>>

InitLines ==
    /\ text \in SeqsUpTo(LineAlphabet, MaxLines)
    /\ pc = "parse_lines"
    /\ LinesIdle /\ hdr = <<>> /\ RowsIdle /\ BatchIdle

Cur == clean(block[idx])
InLoop(c) == pc = "loop" /\ idx <= Len(block) /\ LineClass(Cur) = c
Others == <<text, hdr, batchVars, rowsVars>>

IsolateRegion ==
    /\ pc = "parse_lines"
    /\ block' = TableBlock(text)
    /\ idx' = 1
    /\ lines' = <<>>
    /\ pc' = "loop"
    /\ UNCHANGED Others

SkipEmpty ==
    /\ InLoop("empty")
    /\ idx' = idx + 1
    /\ UNCHANGED <<block, lines, pc, Others>>

SkipChrome ==
    /\ InLoop("chrome")
    /\ idx' = idx + 1
    /\ UNCHANGED <<block, lines, pc, Others>>

FreightLine ==
    /\ InLoop("freight")
    /\ lines' = Append(lines, FreightItem(Cur))
    /\ idx' = idx + 1
    /\ UNCHANGED <<block, pc, Others>>

FullLine ==
    /\ InLoop("full")
    /\ ~FullRaises(Cur)
    /\ lines' = Append(lines, FullItem(Cur))
    /\ idx' = idx + 1
    /\ UNCHANGED <<block, pc, Others>>

FullLineRaises ==
    /\ InLoop("full")
    /\ FullRaises(Cur)
    /\ pc' = "raised"
    /\ UNCHANGED <<block, idx, lines, Others>>

ShortLine ==
    /\ InLoop("short")
    /\ lines' = Append(lines, ShortItem(Cur))
    /\ idx' = idx + 1
    /\ UNCHANGED <<block, pc, Others>>

DropLine ==
    /\ InLoop("unparsed")
    /\ idx' = idx + 1
    /\ UNCHANGED <<block, lines, pc, Others>>

ReturnLines ==
    /\ pc = "loop"
    /\ idx > Len(block)
    /\ pc' = "returned"
    /\ UNCHANGED <<block, idx, lines, Others>>

NextLines ==
    \/ IsolateRegion \/ SkipEmpty \/ SkipChrome \/ FreightLine \/ FullLine
    \/ FullLineRaises \/ ShortLine \/ DropLine \/ ReturnLines

SpecLines == InitLines /\ [][NextLines]_vars

(* ----------------------------- parse_header, run ---------------------- *)
HRef == <<<<"R","e","f","e","r","e","n","c","e">>, <<"N","o",".">>, <<"A","B","C","-","1","2","3">>>>
HDate == <<<<"D","a","t","e",":">>, <<"4","/","5","/","2","0","2","4">>>>
HShipDate == <<<<"S","h","i","p","D","a","t","e",":">>, <<"1","/","2","/","2","0","2","4">>>>
HSo == <<<<"S","O">>, <<"N","U","M","B","E","R">>, <<"1","2","-","3">>>>
HShipment == <<<<"S","h","i","p","m","e","n","t">>, <<"N","u","m","b","e","r">>, <<"5","5">>>>
HTrackHash == <<<<"T","r","a","c","k","i","n","g">>, <<"#">>, <<"1","Z","9","9">>>>
HTrackHashLower == <<<<"t","r","a","c","k","i","n","g">>, <<"#","a","b","7">>>>
HTrackHeading == <<<<"T","R","A","C","K","I","N","G">>, <<"N","U","M","B","E","R">>>>
HTrackValue == <<<<"1","Z","8","8">>>>
HeaderAlphabet == {HRef, HDate, HShipDate, HSo, HShipment, HTrackHash,
                   HTrackHashLower, HTrackHeading, HTrackValue}

InitHeader ==
    /\ text \in SeqsUpTo(HeaderAlphabet, MaxHeaderLines)
    /\ pc = "parse_header"
    /\ hdr = <<>>
    /\ LinesIdle /\ RowsIdle /\ BatchIdle

ParseHeader ==
    /\ pc = "parse_header"
    /\ hdr' = parse_header(text)
    /\ pc' = "header_done"
    /\ UNCHANGED <<text, linesVars, rowsVars, batchVars>>

NextHeader == ParseHeader
SpecHeader == InitHeader /\ [][NextHeader]_vars

(* -------------------------- to_craftybase_rows, run ------------------- *)
BrassCollar == <<<<"B","r","a","s","s">>, <<"C","o","l","l","a","r">>>>
AirFreight == <<<<"A","I","R">>, <<"F","R","E","I","G","H","T">>>>
Amounts == {<<750, 0>>, <<0, 1234>>, <<750, 1234>>}
Quantities == {0, 50, 270, 300, 0 - 270}
ShapeItems ==
    {LineItem(k, n, 100, a[1], a[2]) :
        k \in {<<>>, <<"B","R","-","1","0","0">>}, n \in {FreightName, BrassCollar, AirFreight}, a \in Amounts}
QtyItems == {LineItem(<<"B","R","-","1","0","0">>, BrassCollar, q, 750, 0) : q \in Quantities}
ItemDomain == ShapeItems \cup QtyItems
MetaFull ==
    [invoice_no |-> <<"A","B","C","-","1","2","3">>, purchase_date |-> <<"4","/","5","/","2","0","2","4">>, so_number |-> <<"1","2","-","3">>,
     shipment_number |-> <<"5","5">>, tracking |-> <<"1","Z","9","9">>]
Metas == {<<>>, [so_number |-> <<"1","2","-","3">>], MetaFull}

InitRows ==
    /\ meta \in Metas
    /\ items \in SeqsUpTo(ItemDomain, MaxItems)
    /\ rows = <<>>
    /\ pc = "to_craftybase_rows"
    /\ text = <<>> /\ hdr = <<>> /\ LinesIdle /\ BatchIdle

BuildRows ==
    /\ pc = "to_craftybase_rows"
    /\ rows' = to_craftybase_rows(meta, items)
    /\ pc' = "rows_done"
    /\ UNCHANGED <<meta, items, text, hdr, linesVars, batchVars>>

NextRows == BuildRows
SpecRows == InitRows /\ [][NextRows]_vars

(* ------------------------------ upload loop --------------------------- *)
UploadedFile(name, readable, txt) == [name |-> name, readable |-> readable, text |-> txt]
DocUnreadable == UploadedFile("broken.pdf", FALSE, <<>>)
DocInvoice == UploadedFile("invoice.pdf", TRUE, <<HRef, HSo, LHeader, LFull, LFreight, LThank>>)
DocNoItems == UploadedFile("letter.pdf", TRUE, <<HDate, LThank>>)
DocShort == UploadedFile("short.pdf", TRUE, <<LShort, LFreightTotal>>)
DocOdd == UploadedFile("odd.pdf", TRUE, <<LShort, LFullBad>>)
Docs == {DocUnreadable, DocInvoice, DocNoItems, DocShort, DocOdd}

\* pd.concat(frames, ignore_index=True) and drop(columns=['source_file'])
RECURSIVE ConcatFrames(_)
ConcatFrames(fs) == IF fs = <<>> THEN <<>> ELSE Head(fs).rows \o ConcatFrames(Tail(fs))

Init ==
    /\ uploaded \in SeqsUpTo(Docs, MaxDocs)
    /\ fi = 0 /\ frames = <<>> /\ errors = <<>> /\ warnings = <<>> /\ result = <<>>
    /\ pc = "start"
    /\ text = <<>> /\ hdr = <<>> /\ LinesIdle /\ RowsIdle

\* "else: st.info(...)": nothing was uploaded
ShowInfo ==
    /\ pc = "start"
    /\ uploaded = <<>>
    /\ pc' = "idle"
    /\ UNCHANGED <<batchVars, text, hdr, linesVars, rowsVars>>

\* "if uploaded: frames = []"
BeginBatch ==
    /\ pc = "start"
    /\ uploaded # <<>>
    /\ frames' = <<>>
    /\ fi' = 1
    /\ pc' = "for"
    /\ UNCHANGED <<uploaded, errors, warnings, result, text, hdr, linesVars, rowsVars>>

\* extract_text raises: st.error and continue
ExtractFails ==
    /\ pc = "for"
    /\ fi <= Len(uploaded)
    /\ ~uploaded[fi].readable
    /\ errors' = Append(errors, uploaded[fi].name)
    /\ fi' = fi + 1
    /\ UNCHANGED <<uploaded, frames, warnings, result, pc, text, hdr, linesVars, rowsVars>>

\* one pass of the loop body for a readable document
ProcessDocument ==
    /\ pc = "for"
    /\ fi <= Len(uploaded)
    /\ uploaded[fi].readable
    /\ ~parse_lines(uploaded[fi].text).raised
    /\ text' = uploaded[fi].text
    /\ meta' = parse_header(text')
    /\ items' = parse_lines(text').lines
    /\ warnings' = IF items' = <<>> THEN Append(warnings, uploaded[fi].name) ELSE warnings
    /\ rows' = to_craftybase_rows(meta', items')
    /\ frames' = Append(frames, [source_file |-> uploaded[fi].name, rows |-> rows'])
    /\ fi' = fi + 1
    /\ UNCHANGED <<uploaded, errors, result, pc, hdr, linesVars>>

\* parse_lines raises outside the try block: the script run ends there
ProcessRaises ==
    /\ pc = "for"
    /\ fi <= Len(uploaded)
    /\ uploaded[fi].readable
    /\ parse_lines(uploaded[fi].text).raised
    /\ text' = uploaded[fi].text
    /\ meta' = parse_header(text')
    /\ pc' = "crashed"
    /\ UNCHANGED <<batchVars, hdr, linesVars, items, rows>>

\* "if frames:" after the loop: the combined table is shown and offered
Publish ==
    /\ pc = "for"
    /\ fi > Len(uploaded)
    /\ frames # <<>>
    /\ result' = ConcatFrames(frames)
    /\ pc' = "published"
    /\ UNCHANGED <<uploaded, fi, frames, errors, warnings, text, hdr, linesVars, rowsVars>>

\* the loop ended with no frame: nothing is shown
NothingToPublish ==
    /\ pc = "for"
    /\ fi > Len(uploaded)
    /\ frames = <<>>
    /\ pc' = "nothing"
    /\ UNCHANGED <<batchVars, text, hdr, linesVars, rowsVars>>

Next ==
    \/ ShowInfo \/ BeginBatch \/ ExtractFails \/ ProcessDocument
    \/ ProcessRaises \/ Publish \/ NothingToPublish

Spec == Init /\ [][Next]_vars

(* =============================== claims =============================== *)
Parses(t) == PyFloat(RemoveCommas(t)).ok
Value(t) == PyFloat(RemoveCommas(t)).v

\* C1: a full item line "<row> <SKU>[:] <description> EACH <v1> <v2> <v3> <qty>
\* <amount>" yields exactly one LineItem with the line's SKU and description,
\* qty = the numeric field just before the final amount, price_subtotal = the
\* final amount and shipping 0 (stated for lines whose qty and amount fields
\* are numbers).
C1_FullLineItem ==
    [][(InLoop("full") /\ PyFloat(FullGroup(Cur, 6)).ok /\ Parses(FullGroup(Cur, 7)))
        => lines' = Append(lines, LineItem(FullGroup(Cur, 1), FullGroup(Cur, 2),
                                           PyFloat(FullGroup(Cur, 6)).v,
                                           Value(FullGroup(Cur, 7)), 0))]_vars

\* C2: parse_lines never raises, whatever the text holds.
C2_NeverRaises == pc # "raised"

\* C6: a cleaned line that is not empty, not table chrome and holds the word
\* Freight yields exactly one LineItem: empty SKU, the fixed name, qty 1,
\* price_subtotal 0 and shipping = the digits.dd amount that ends the line
\* (0 without one), also when the line has the shape of an item line.
C6_TrailingAmount(s) ==
    LET t == s[Len(s)]
        sufs == {k \in 4..Len(t) :
                    LET u == SubSeq(t, Len(t) - k + 1, Len(t)) IN
                    /\ AllIn(SubSeq(u, 1, k - 3), Digit)
                    /\ u[k - 2] = "."
                    /\ u[k - 1] \in Digit /\ u[k] \in Digit}
    IN  IF sufs = {} THEN 0
        ELSE PyFloat(SubSeq(t, Len(t) - Max(sufs) + 1, Len(t))).v
C6_FreightLine ==
    [][(pc = "loop" /\ idx <= Len(block) /\ Cur # <<>> /\ ~IsChrome(Cur) /\ HasFreightWord(Cur))
        => /\ lines' = Append(lines, [sku |-> <<>>, name |-> FreightName, qty |-> 100,
                                      price_subtotal |-> 0,
                                      shipping |-> C6_TrailingAmount(Cur)])
           /\ idx' = idx + 1
           /\ pc' = "loop"]_vars
\* a line with both the item shape and the word Freight went through the freight branch
C6_Witness ==
    /\ pc = "loop" /\ idx = 2
    /\ block[1] = LFreightItem /\ FullMatch(clean(block[1]))
    /\ lines = <<LineItem(<<>>, FreightName, 100, 0, 200)>>

\* C9: with a "NO. ITEM ... AMOUNT" header row followed later by a terminal
\* marker, only the lines after that row and before the first such marker
\* produce LineItems; with no such region every line of the text is a candidate.
C9_HeaderRow(raw) ==
    LET s == clean(raw) IN
    /\ Len(s) >= 3
    /\ EqualsCI(s[1], <<"N","O",".">>) /\ StartsWithCI(s[2], <<"I","T","E","M">>)
    /\ EndsWithCI(s[Len(s)], <<"A","M","O","U","N","T">>)
C9_Regions(txt) ==
    {r \in (1..Len(txt)) \X (1..Len(txt)) :
        /\ r[1] < r[2]
        /\ C9_HeaderRow(txt[r[1]])
        /\ MarkerAtStart(txt[r[2]])
        /\ \A k \in (r[1] + 1)..(r[2] - 1) : ~MarkerAtStart(txt[k])}
C9_ClaimedBlock(txt) ==
    IF C9_Regions(txt) = {} THEN txt
    ELSE LET r == CHOOSE r \in C9_Regions(txt) : \A r2 \in C9_Regions(txt) : r[1] <= r2[1]
         IN  SubSeq(txt, r[1] + 1, r[2] - 1)
C9_RegionIsolation ==
    pc = "returned" => lines = ParseBlock(C9_ClaimedBlock(text), <<>>).lines

\* C10: a row of to_craftybase_rows(parse_header(text), parse_lines(text)) is
\* 'Shipping' exactly when its LineItem came out of the freight branch, every
\* LineItem of the extractor has price_subtotal = 0 or shipping = 0, and so
\* grand_total = line_item_price + shipping in every such row.
C10_ExtractorNormalizerAgree ==
    [][(Len(lines') = Len(lines) + 1)
        => LET it == lines'[Len(lines')]
               r == to_craftybase_rows(parse_header(text), lines')[Len(lines')]
           IN  /\ (r.line_item_category_id = "Shipping") <=> FreightLine
               /\ (r.line_item_category_id = "Materials") <=> (FullLine \/ ShortLine)
               /\ it.price_subtotal = 0 \/ it.shipping = 0
               /\ r.grand_total = r.line_item_price + r.shipping]_vars
\* a text gave a freight row and an item row whose name holds "Freight"
C10_Witness ==
    /\ pc = "returned"
    /\ Len(lines) = 2
    /\ to_craftybase_rows(parse_header(text), lines)[1].line_item_category_id = "Shipping"
    /\ lines[1].shipping = 1234
    /\ to_craftybase_rows(parse_header(text), lines)[2].line_item_category_id = "Materials"
    /\ lines[2].name = <<<<"F","r","e","i","g","h","t","e","r">>, <<"L","a","m","p">>>>

\* C4: grand_total of every row is the item's price_subtotal plus its
\* shipping (hundredths, so the rounding to 2 decimals is exact), also for
\* freight rows, whose line_item_price is 0 while price_subtotal still counts.
C4_GrandTotal ==
    pc = "rows_done" =>
        \A i \in 1..Len(items) :
            rows[i].grand_total = items[i].price_subtotal + items[i].shipping
C4_Witness ==
    /\ pc = "rows_done"
    /\ \E i \in 1..Len(items) :
        /\ rows[i].line_item_category_id = "Shipping"
        /\ items[i].price_subtotal = 750 /\ items[i].shipping = 1234
        /\ rows[i].line_item_price = 0
        /\ rows[i].grand_total = 1984

\* C5: line_item_quantity is the integer part of qty (fraction dropped, not
\* rounded), for every qty, 0 and values between 0 and 1 included.
C5_IntegerPart(q) ==
    CHOOSE n \in (0 - 9)..9 :
        \/ q >= 0 /\ n >= 0 /\ n * 100 <= q /\ q < (n + 1) * 100
        \/ q < 0 /\ n <= 0 /\ n * 100 >= q /\ q > (n - 1) * 100
C5_Truncates ==
    pc = "rows_done" =>
        \A i \in 1..Len(items) : rows[i].line_item_quantity = C5_IntegerPart(items[i].qty)
\* C5, amended: line_item_quantity is the integer part of qty for every qty
\* other than 0; a qty of 0 counts as missing and gives 1.
C5_TruncatesNonZero ==
    pc = "rows_done" =>
        \A i \in 1..Len(items) :
            rows[i].line_item_quantity =
                IF items[i].qty = 0 THEN 1 ELSE C5_IntegerPart(items[i].qty)
C5_Witness ==
    /\ pc = "rows_done"
    /\ \E i \in 1..Len(items) : items[i].qty = 270 /\ rows[i].line_item_quantity = 2
    /\ \E i \in 1..Len(items) : items[i].qty = 50 /\ rows[i].line_item_quantity = 0

\* C7: one row per LineItem, in input order; row i is 'Shipping' exactly when
\* item i has an empty SKU and a name holding "freight" in any case, else
\* 'Materials'; line_item_price is 0 for 'Shipping' and the item's
\* price_subtotal otherwise; shipping is the item's shipping in both.
C7_FreightShaped(it) ==
    /\ it.sku = <<>>
    /\ \E k \in 1..Len(it.name) : \E i \in 1..Len(it.name[k]) :
          /\ i + 6 <= Len(it.name[k])
          /\ \A j \in 1..7 : Lower(it.name[k][i + j - 1]) = <<"f","r","e","i","g","h","t">>[j]
C7_OneRowPerItem ==
    pc = "rows_done" =>
        /\ Len(rows) = Len(items)
        /\ \A i \in 1..Len(items) :
            /\ rows[i].material_sku = items[i].sku
            /\ rows[i].material_name = items[i].name
            /\ rows[i].line_item_category_id =
                   IF C7_FreightShaped(items[i]) THEN "Shipping" ELSE "Materials"
            /\ rows[i].line_item_price =
                   IF rows[i].line_item_category_id = "Shipping" THEN 0
                   ELSE items[i].price_subtotal
            /\ rows[i].shipping = items[i].shipping
C7_Witness ==
    /\ pc = "rows_done"
    /\ Len(rows) = 2
    /\ items[1].sku = <<>> /\ items[1].name = AirFreight /\ items[1].price_subtotal = 750
    /\ rows[1].line_item_category_id = "Shipping" /\ rows[1].line_item_price = 0
    /\ items[2].sku # <<>> /\ items[2].name = AirFreight
    /\ rows[2].line_item_category_id = "Materials" /\ rows[2].line_item_price = 750

\* C8: parse_header returns a key exactly when that key's pattern matches in
\* the text, each with the value of its own search; tracking comes from the
\* first "Tracking #" match when there is one, wherever it stands, and from
\* the line under a "TRACKING NUMBER" heading only when there is none.
C8_PartialExtraction ==
    pc = "header_done" =>
        /\ DOMAIN hdr \subseteq HeaderKeys
        /\ ("invoice_no" \in DOMAIN hdr) <=> (SearchInvoiceNo(text) # None)
        /\ ("purchase_date" \in DOMAIN hdr) <=> (SearchDate(text) # None)
        /\ ("so_number" \in DOMAIN hdr) <=> (SearchSoNumber(text) # None)
        /\ ("shipment_number" \in DOMAIN hdr) <=> (SearchShipmentNumber(text) # None)
        /\ ("tracking" \in DOMAIN hdr) <=>
               (SearchTrackingHash(text) # None \/ SearchTrackingHeading(text) # None)
        /\ SearchInvoiceNo(text) # None => hdr["invoice_no"] = SearchInvoiceNo(text).v
        /\ SearchDate(text) # None => hdr["purchase_date"] = SearchDate(text).v
        /\ SearchSoNumber(text) # None => hdr["so_number"] = SearchSoNumber(text).v
        /\ SearchShipmentNumber(text) # None =>
               hdr["shipment_number"] = SearchShipmentNumber(text).v
        /\ SearchTrackingHash(text) # None => hdr["tracking"] = SearchTrackingHash(text).v
        /\ (SearchTrackingHash(text) = None /\ SearchTrackingHeading(text) # None) =>
               hdr["tracking"] = SearchTrackingHeading(text).v
\* both tracking forms are in the text, the heading form first: "Tracking #" wins
C8_Witness ==
    /\ pc = "header_done"
    /\ text = <<HTrackHeading, HTrackValue, HTrackHash>>
    /\ SearchTrackingHeading(text) = Some(<<"1","Z","8","8">>)
    /\ hdr = [tracking |-> <<"1","Z","9","9">>]

\* C3: the combined output is the concatenation, in upload order, of the rows
\* of the documents whose text extraction succeeded; an unreadable document
\* is reported and skipped, a document without line items gives no rows and
\* an advisory, and neither stops the documents after it.
RECURSIVE C3_ExpectedRows(_)
C3_ExpectedRows(docs) ==
    IF docs = <<>> THEN <<>>
    ELSE (IF Head(docs).readable
          THEN to_craftybase_rows(parse_header(Head(docs).text), parse_lines(Head(docs).text).lines)
          ELSE <<>>)
         \o C3_ExpectedRows(Tail(docs))
C3_Names(docs, keep(_)) ==
    LET kept == SelectSeq(docs, keep) IN [i \in 1..Len(kept) |-> kept[i].name]
C3_Unreadable(d) == ~d.readable
C3_NoItems(d) == d.readable /\ parse_lines(d.text).lines = <<>>
C3_BatchOutput ==
    /\ pc # "crashed"
    /\ pc \in {"published", "nothing"} =>
          /\ result = C3_ExpectedRows(uploaded)
          /\ errors = C3_Names(uploaded, C3_Unreadable)
          /\ warnings = C3_Names(uploaded, C3_NoItems)
====
